---- MODULE Spec2Model ----
(***************************************************************************)
(* A model of splash.browser_tab.BrowserTab: the per-tab controller that   *)
(* drives one QWebPage through go()/loadFinished, keeps one-shot timers    *)
(* with cancel-on-redirect policies, and reports one result to the Pool    *)
(* through a twisted Deferred.                                             *)
(*                                                                         *)
(* Everything runs on one Qt event loop.  pc says where control is:        *)
(*   "loop"      the event loop is idle and may dispatch the next signal   *)
(*   "emit"      web_page.loadFinished is being emitted; slots holds the   *)
(*               connected slots that have not run yet                     *)
(*   "go_cb"     inside the callback/errback given to go()                 *)
(*   "timeout"   inside _on_wait_timeout, after _active_timers.remove      *)
(*   "timer_cb"  inside the callback given to wait()                       *)
(*   "sweep"     inside the for loop of _on_url_changed                    *)
(*   "cancel_cb" inside the onredirect callable given to wait()            *)
(* The callbacks are the caller's code: they may call the tab's public     *)
(* methods (go, wait, return_result, return_error) and are taken to return *)
(* normally.  The Pool may call _close whenever caller code is running.    *)
(***************************************************************************)
EXTENDS Integers, Sequences, FiniteSets, TLC

\* Bounds of the model.
MaxTimers == 3
MaxCalls == 2
MaxOutcomes == 2
MaxDeliveries == 2
MaxOps == 2
MaxHistory == 1
MaxHistoryLen == 2
MaxHistoryCalls == 2
MaxEnables == 2
MaxMessages == 3
MaxEntries == 3

Timers == 1..MaxTimers
Calls == 1..MaxCalls

\* Values of wait()'s onredirect argument: falsy, True, or a callable.
OnRedirectValues == {"none", "true", "callable"}

\* Values of go()'s http_method argument.
Methods == {"GET", "POST"}

\* Where caller code runs, so that a public method can be called.
UserCtl == {"loop", "go_cb", "timer_cb", "cancel_cb"}

\* Records har_log._prev_entry can return as cause_ev.data.
HarData ==
  { [request |-> [url |-> "u", queryString |-> <<"a=1">>], private |-> "p"] }

\* Records of a HAR log with two requests, for the history of the tab.
HistoryData ==
  { [request |-> [url |-> u, queryString |-> <<"a=1">>], private |-> "p"] :
      u \in {"u1", "u2"} }

\* Arguments of console.log as the slot receives them.
ConsoleArgs == { [kind |-> "QString", text |-> s] : s \in {"a", "b"} }

\* File names of a folder, and the entries os.listdir and open() see: an
\* entry that is not readable makes open() or read() raise.
FileNames ==
  { [stem |-> n, ext |-> ".js"] : n \in {"a", "b", "c"} } \cup
  { [stem |-> "a", ext |-> ".txt"] }
DirEntries == { [name |-> n, readable |-> r] : n \in FileNames,
                                               r \in BOOLEAN }
Listings ==
  { d \in UNION { [1..k -> DirEntries] : k \in 0..MaxEntries } :
      \A i, j \in DOMAIN d : i # j => d[i].name # d[j].name }

VARIABLES
  deferred,                   \* self.deferred: "empty", "success" or "error"
  deliveries,                 \* calls made to deferred.callback / errback
  warnings,                   \* "error: result is already returned" entries
  closing,                    \* self._closing
  errorInfo,                  \* web_page.errorInfo: "none" or "set"
  active_timers,              \* self._active_timers
  cancel_on_redirect_timers,  \* self._cancel_on_redirect_timers
  history,                    \* self._history
  har_timings,                \* names given to har_log.store_timing
  loadFinished,               \* slots connected to web_page.loadFinished
  call,                       \* each go() call: its arguments and progress
  reply,                      \* self._reply: whose reply, and whether deleted
  issued,                     \* requests handed to the engine: <<call, kind>>
  cbCalls,                    \* invocations of each go() call's callback
  ebCalls,                    \* invocations of each go() call's errback
  timer,                      \* each QTimer: state and onredirect argument
  origCalls,                  \* invocations of each wait() callback
  cancelCalls,                \* invocations of each onredirect callable
  redirected,                 \* timers with onredirect running at a urlChanged
  pc,                         \* where control is
  sweep,                      \* items of the snapshot still to cancel
  slots,                      \* slots of the current emission still to run
  sigOk,                      \* the ok argument of the current emission
  curTimer,                   \* the timer of the running _on_wait_timeout
  logged,                     \* log entries of the handlers that only log
  armed,                      \* calls whose load was issued with the slot connected
  snapshot,                   \* what the last history() call returned
  historyCalls,               \* calls made to history()
  js_console,                 \* self._js_console: the object and its messages
  enableCalls,                \* calls made to _jsconsole_enable()
  console_read,               \* what the last _jsconsole_messages() returned
  listing,                    \* os.listdir(folder) of the last inject_js_libs
  executed,                   \* scripts the last inject_js_libs ran, in order
  inject_status               \* how the last inject_js_libs ended

tabVars == <<deferred, deliveries, warnings, closing, errorInfo, history,
             har_timings>>
navVars == <<loadFinished, call, reply, issued, cbCalls, ebCalls, slots,
             sigOk, logged, armed>>
timerVars == <<active_timers, cancel_on_redirect_timers, timer, origCalls,
               cancelCalls, redirected, sweep, curTimer>>
captureVars == <<snapshot, historyCalls>>
jsVars == <<js_console, enableCalls, console_read, listing, executed,
            inject_status>>
auxVars == <<captureVars, jsVars>>
vars == <<tabVars, navVars, timerVars, auxVars, pc>>

\* The state after BrowserTab.__init__.
Init ==
  /\ deferred = "empty"
  /\ deliveries = 0
  /\ warnings = 0
  /\ closing = FALSE
  /\ errorInfo = "none"
  /\ active_timers = {}
  /\ cancel_on_redirect_timers = [t \in {} |-> "true"]
  /\ history = <<>>
  /\ har_timings = {}
  /\ loadFinished = <<>>
  /\ call = [c \in Calls |-> [st |-> "unused", baseurl |-> FALSE,
                              method |-> "GET"]]
  /\ reply = [owner |-> 0, deleted |-> FALSE]
  /\ issued = {}
  /\ cbCalls = [c \in Calls |-> 0]
  /\ ebCalls = [c \in Calls |-> 0]
  /\ timer = [t \in Timers |-> [st |-> "unused", onredirect |-> "none"]]
  /\ origCalls = [t \in Timers |-> 0]
  /\ cancelCalls = [t \in Timers |-> 0]
  /\ redirected = {}
  /\ pc = "loop"
  /\ sweep = <<>>
  /\ slots = <<>>
  /\ sigOk = FALSE
  /\ curTimer = 0
  /\ logged = {}
  /\ armed = {}
  /\ snapshot = <<>>
  /\ historyCalls = 0
  /\ js_console = [obj |-> 0, messages |-> <<>>]
  /\ enableCalls = 0
  /\ console_read = [taken |-> FALSE, aliased |-> FALSE, value |-> <<>>]
  /\ listing = <<>>
  /\ executed = <<>>
  /\ inject_status = "idle"

\* The go() calls and the timers not made yet, and the number of calls the
\* caller has made to go, wait, return_result and return_error.
UnusedCalls == {c \in Calls : call[c].st = "unused"}
UnusedTimers == {t \in Timers : timer[t].st = "unused"}
OpsUsed ==
  Cardinality(Calls \ UnusedCalls) + Cardinality(Timers \ UnusedTimers)
    + deliveries

--------------------------------------------------------------------------
(* ResultChannel: return_result, return_error, result_already_returned.   *)

\* result_already_returned(): self.deferred.called.
ResultAlreadyReturned(d) == d # "empty"

\* A return_result / return_error that never writes the log entry.
WarnNever(d) == 0

\* The log entries return_result / return_error write before delivering.
WarnIfReturned(d) == IF ResultAlreadyReturned(d) THEN 1 ELSE 0

\* A delivery primitive that accepts a second delivery.
DeferredFireAgain(d, variant) == variant

\* Deferred.callback / Deferred.errback: the first call sets the result; a
\* call on a Deferred that was already called raises AlreadyCalledError and
\* leaves the result as it was.
DeferredFire(d, variant) == IF d = "empty" THEN variant ELSE d

\* The part of return_result / return_error after the check: the delivery
\* is attempted whatever the check found.
Deliver(variant) ==
  /\ deliveries' = deliveries + 1
  /\ deferred' = DeferredFire(deferred, variant)

ReturnResult ==
  /\ pc \in UserCtl
  /\ deliveries < MaxDeliveries
  /\ warnings' = warnings + WarnIfReturned(deferred)
  /\ Deliver("success")
  /\ UNCHANGED <<auxVars, closing, errorInfo, history, har_timings, navVars,
                 timerVars, pc>>

ReturnError ==
  /\ pc \in UserCtl
  /\ deliveries < MaxDeliveries
  /\ warnings' = warnings + WarnIfReturned(deferred)
  /\ Deliver("error")
  /\ UNCHANGED <<auxVars, closing, errorInfo, history, har_timings, navVars,
                 timerVars, pc>>

--------------------------------------------------------------------------
(* NavigationController: go, _close, the base-URL fetch, loadFinished.    *)

\* The next go() call: calls are numbered in call order.
NextCall == CHOOSE c \in UnusedCalls : \A d \in UnusedCalls : c <= d

\* A go() without the check of http_method.
MethodSupportedAlways(baseurl, http_method) == TRUE

\* go() raises NotImplementedError for a base URL with a method but GET.
MethodSupported(baseurl, http_method) == ~(baseurl /\ http_method # "GET")

\* A handler that issues the load before it connects its slot.
IssueThenConnect(subs, c) == subs

\* The slots connected when the statement after loadFinished.connect(cb)
\* runs: the load of go(), the setContent of the fetch handler.
ConnectThenIssue(subs, c) == Append(subs, c)

\* Whether call c has a slot among subs.
Connected(subs, c) == \E i \in DOMAIN subs : subs[i] = c

Go(baseurl, http_method) ==
  /\ pc \in UserCtl
  /\ UnusedCalls # {}
  /\ har_timings' = har_timings \cup {"_onStarted"}
  /\ LET c == NextCall
         args == [baseurl |-> baseurl, method |-> http_method]
     IN IF ~MethodSupported(baseurl, http_method)
        THEN /\ call' = [call EXCEPT ![c] = [st |-> "raised"] @@ args]
             /\ UNCHANGED <<reply, issued, loadFinished, armed>>
        ELSE IF baseurl
        THEN /\ call' = [call EXCEPT ![c] = [st |-> "fetching"] @@ args]
             /\ issued' = issued \cup {<<c, "get">>}
             /\ reply' = [owner |-> c, deleted |-> FALSE]
             /\ UNCHANGED <<loadFinished, armed>>
        ELSE /\ call' = [call EXCEPT ![c] = [st |-> "loading"] @@ args]
             /\ loadFinished' = Append(loadFinished, c)
             /\ issued' = issued \cup {<<c, "load">>}
             /\ armed' = armed \cup
                  {d \in {c} : Connected(ConnectThenIssue(loadFinished, c), d)}
             /\ UNCHANGED reply
  /\ UNCHANGED <<auxVars, deferred, deliveries, warnings, closing, errorInfo, history,
                 cbCalls, ebCalls, slots, sigOk, logged, timerVars, pc>>

\* A _close that stops the timers and empties the timer registry.
CloseStopsTimers ==
  /\ pc \in UserCtl
  /\ closing' = TRUE
  /\ active_timers' = {}
  /\ cancel_on_redirect_timers' = [t \in {} |-> "none"]
  /\ timer' = [t \in Timers |->
                 IF timer[t].st = "running"
                 THEN [timer[t] EXCEPT !.st = "stopped"]
                 ELSE timer[t]]
  /\ UNCHANGED <<auxVars, deferred, deliveries, warnings, errorInfo, history,
                 har_timings, navVars, origCalls, cancelCalls, redirected,
                 sweep, curTimer, pc>>

\* _close(): the Pool destroys the tab.
Close ==
  /\ pc \in UserCtl
  /\ closing' = TRUE
  /\ UNCHANGED <<auxVars, deferred, deliveries, warnings, errorInfo, history,
                 har_timings, navVars, timerVars, pc>>

\* The page sets or clears its errorInfo slot between signals.
SetErrorInfo(e) ==
  /\ pc = "loop"
  /\ e # errorInfo
  /\ errorInfo' = e
  /\ UNCHANGED <<auxVars, deferred, deliveries, warnings, closing, history,
                 har_timings, navVars, timerVars, pc>>

\* A fetch handler that injects the body of a successful fetch only.
InjectsOnlyWithoutError(err) == ~err

\* setContent comes before the check of self._reply.error(), which only
\* logs: the body is injected whatever the fetch's error state.
InjectsContent(err) == TRUE

\* _reply.finished of call c's request: _on_baseurl_request_finished.  The
\* handler connects the load-finished slot first, then reads self._reply,
\* which is the reply of the latest go() with a base URL; a reply already
\* handed to deleteLater raises RuntimeError when read.  A reply deleted
\* before it finished never emits finished.
FetchFinished(c, err) ==
  /\ pc = "loop"
  /\ call[c].st = "fetching"
  /\ loadFinished' = Append(loadFinished, c)
  /\ IF reply.deleted
     THEN /\ call' = [call EXCEPT ![c].st = "stalled"]
          /\ UNCHANGED <<issued, reply, logged, armed>>
     ELSE /\ issued' = issued \cup
               {i \in {<<c, "setContent">>} : InjectsContent(err)}
          /\ armed' = armed \cup
               {d \in {c} : /\ InjectsContent(err)
                            /\ Connected(ConnectThenIssue(loadFinished, c), d)}
          /\ logged' = logged \cup (IF err THEN {"Error loading"} ELSE {})
          /\ reply' = [reply EXCEPT !.deleted = TRUE]
          /\ call' = [d \in Calls |->
                        IF d = c THEN [call[d] EXCEPT !.st = "loading"]
                        ELSE IF d = reply.owner /\ call[d].st = "fetching"
                        THEN [call[d] EXCEPT !.st = "aborted"]
                        ELSE call[d]]
  /\ UNCHANGED <<auxVars, tabVars, cbCalls, ebCalls, slots, sigOk, timerVars, pc>>

\* A maybe_redirect that is never set, and one that tests errorInfo the
\* wrong way round.
MaybeRedirectNever(ok, err) == FALSE
MaybeRedirectOnError(ok, err) == ~ok /\ err # "none"

\* The three flags _on_goto_load_finished computes.
PageOk(ok, err) == ok /\ err = "none"
MaybeRedirect(ok, err) == ~ok /\ err = "none"
ErrorLoading(ok, err) == ok /\ err # "none"

\* An _on_goto_load_finished without the check of self._closing.
NeverIgnored == FALSE

\* The early return of _on_goto_load_finished.
IgnoredWhenClosing == closing

\* Where control goes when a slot of the emission is done.
AfterSlot(rest) == IF rest = <<>> THEN "loop" ELSE "emit"

\* The callback and errback invocations made so far, for calls 1..n.
RECURSIVE OutcomesUpTo(_)
OutcomesUpTo(n) ==
  IF n = 0 THEN 0 ELSE cbCalls[n] + ebCalls[n] + OutcomesUpTo(n - 1)

\* web_page.loadFinished(ok) is emitted: the slots connected now will run,
\* in connection order.
LoadFinishedSignal(ok) ==
  /\ pc = "loop"
  /\ loadFinished # <<>>
  /\ OutcomesUpTo(MaxCalls) < MaxOutcomes
  /\ slots' = loadFinished
  /\ sigOk' = ok
  /\ pc' = "emit"
  /\ UNCHANGED <<auxVars, tabVars, loadFinished, call, reply, issued, cbCalls,
                 ebCalls, logged, armed, timerVars>>

\* _on_goto_load_finished(ok, callback, errback) of go() call c.
OnGotoLoadFinished(c) ==
  /\ pc = "emit"
  /\ slots # <<>>
  /\ c = Head(slots)
  /\ slots' = Tail(slots)
  /\ IF IgnoredWhenClosing
     THEN /\ logged' = logged \cup {"ignored: closing"}
          /\ pc' = AfterSlot(Tail(slots))
          /\ UNCHANGED <<cbCalls, ebCalls>>
     ELSE IF MaybeRedirect(sigOk, errorInfo)
     THEN /\ logged' = logged \cup {"redirect"}
          /\ pc' = AfterSlot(Tail(slots))
          /\ UNCHANGED <<cbCalls, ebCalls>>
     ELSE IF PageOk(sigOk, errorInfo)
     THEN /\ cbCalls' = [cbCalls EXCEPT ![c] = @ + 1]
          /\ pc' = "go_cb"
          /\ UNCHANGED <<ebCalls, logged>>
     ELSE IF ErrorLoading(sigOk, errorInfo)
     THEN /\ ebCalls' = [ebCalls EXCEPT ![c] = @ + 1]
          /\ pc' = "go_cb"
          /\ UNCHANGED <<cbCalls, logged>>
     ELSE /\ ebCalls' = [ebCalls EXCEPT ![c] = @ + 1]
          /\ pc' = "go_cb"
          /\ UNCHANGED <<cbCalls, logged>>
  /\ UNCHANGED <<auxVars, tabVars, loadFinished, call, reply, issued, sigOk,
                 armed, timerVars>>

\* The callback or errback given to go() returns.
GoCallbackReturn ==
  /\ pc = "go_cb"
  /\ pc' = AfterSlot(slots)
  /\ UNCHANGED <<auxVars, tabVars, navVars, timerVars>>

--------------------------------------------------------------------------
(* TimerRegistry: wait, _on_wait_timeout, _cancel_timer, _on_url_changed. *)

\* dict.pop(key, None) and d[key] = value on the timer: callback mapping.
Pop(d, t) == [x \in (DOMAIN d) \ {t} |-> d[x]]
Put(d, t, v) == [x \in (DOMAIN d) \cup {t} |-> IF x = t THEN v ELSE d[x]]

\* The QTimer wait() creates: timers are numbered in creation order.
NextTimer == CHOOSE t \in UnusedTimers : \A u \in UnusedTimers : t <= u

\* "if onredirect:" in wait().
RecordsAssociation(onredirect) == onredirect # "none"

\* wait(time_ms, callback, onredirect).
Wait(onredirect) ==
  /\ pc \in UserCtl
  /\ UnusedTimers # {}
  /\ LET t == NextTimer
     IN /\ timer' = [timer EXCEPT ![t] = [st |-> "running",
                                          onredirect |-> onredirect]]
        /\ active_timers' = active_timers \cup {t}
        /\ cancel_on_redirect_timers' =
             IF RecordsAssociation(onredirect)
             THEN Put(cancel_on_redirect_timers, t, onredirect)
             ELSE cancel_on_redirect_timers
  /\ UNCHANGED <<auxVars, tabVars, navVars, origCalls, cancelCalls, redirected,
                 sweep, curTimer, pc>>

\* timer.timeout of a running single-shot timer: the first statement of
\* _on_wait_timeout, self._active_timers.remove(timer), which raises
\* KeyError (ending the handler) when the timer is not in the set.
TimerExpiry(t) ==
  /\ pc = "loop"
  /\ timer[t].st = "running"
  /\ timer' = [timer EXCEPT ![t].st = "fired"]
  /\ IF t \in active_timers
     THEN /\ active_timers' = active_timers \ {t}
          /\ curTimer' = t
          /\ pc' = "timeout"
     ELSE UNCHANGED <<active_timers, curTimer, pc>>
  /\ UNCHANGED <<auxVars, tabVars, navVars, cancel_on_redirect_timers, origCalls,
                 cancelCalls, redirected, sweep>>

\* An _on_wait_timeout that leaves the association in place.
TimeoutPopNothing(d, t) == d

\* self._cancel_on_redirect_timers.pop(timer, None) in _on_wait_timeout.
TimeoutPop(d, t) == Pop(d, t)

\* The rest of _on_wait_timeout: the pop, then callback().
OnWaitTimeout ==
  /\ pc = "timeout"
  /\ cancel_on_redirect_timers' = TimeoutPop(cancel_on_redirect_timers,
                                             curTimer)
  /\ origCalls' = [origCalls EXCEPT ![curTimer] = @ + 1]
  /\ pc' = "timer_cb"
  /\ UNCHANGED <<auxVars, tabVars, navVars, active_timers, timer, cancelCalls,
                 redirected, sweep, curTimer>>

\* The callback given to wait() returns.
TimerCallbackReturn ==
  /\ pc = "timer_cb"
  /\ pc' = "loop"
  /\ UNCHANGED <<auxVars, tabVars, navVars, timerVars>>

\* without_private(cause_ev.data): the entry without its private fields.
WithoutPrivate(data) == [request |-> data.request]

\* A sweep over the callables only, and a sweep over every active timer.
SweepItemsCallableOnly ==
  {<<t, cancel_on_redirect_timers[t]>> :
     t \in {u \in DOMAIN cancel_on_redirect_timers :
              cancel_on_redirect_timers[u] = "callable"}}
SweepItemsAllActive ==
  {<<t, IF t \in DOMAIN cancel_on_redirect_timers
        THEN cancel_on_redirect_timers[t] ELSE "true">> : t \in active_timers}

\* list(self._cancel_on_redirect_timers.items()): the timers _on_url_changed
\* cancels, each with its onredirect value.
SweepItems ==
  {<<t, cancel_on_redirect_timers[t]>> : t \in DOMAIN cancel_on_redirect_timers}

\* The orders in which a dictionary may yield its items.
Orderings(S) ==
  {q \in [1..Cardinality(S) -> S] :
     \A i, j \in 1..Cardinality(S) : i # j => q[i] # q[j]}

\* Where control goes when an item of the snapshot is done.
AfterItem(rest) == IF rest = <<>> THEN "loop" ELSE "sweep"

\* mainFrame().urlChanged: _on_url_changed up to the for loop.  found says
\* whether har_log._prev_entry returned an entry, data is that entry's data.
UrlChanged(found, data) ==
  /\ pc = "loop"
  /\ history' = IF found
                THEN Append(history, WithoutPrivate(data))
                ELSE history
  /\ redirected' = redirected \cup
       {t \in Timers : timer[t].st = "running" /\ timer[t].onredirect # "none"}
  /\ sweep' \in Orderings(SweepItems)
  /\ pc' = AfterItem(sweep')
  /\ UNCHANGED <<auxVars, deferred, deliveries, warnings, closing, errorInfo,
                 har_timings, navVars, active_timers,
                 cancel_on_redirect_timers, timer, origCalls, cancelCalls,
                 curTimer>>

\* "if callable(errback):" in _cancel_timer.
IsCallable(onredirect) == onredirect = "callable"

\* A _cancel_timer that does not stop the timer.
AfterNoStop(st) == st

\* timer.stop() in _cancel_timer: a stopped timer emits no timeout.
AfterStop(st) == "stopped"

\* One turn of the for loop: _cancel_timer(timer, onredirect).  remove()
\* raises KeyError for a timer not in the set, which ends the handler.
CancelTimer ==
  /\ pc = "sweep"
  /\ sweep # <<>>
  /\ LET t == Head(sweep)[1]
         onredirect == Head(sweep)[2]
     IN /\ cancel_on_redirect_timers' = Pop(cancel_on_redirect_timers, t)
        /\ IF t \in active_timers
           THEN /\ active_timers' = active_timers \ {t}
                /\ timer' = [timer EXCEPT ![t].st = AfterStop(@)]
                /\ sweep' = Tail(sweep)
                /\ IF IsCallable(onredirect)
                   THEN /\ cancelCalls' = [cancelCalls EXCEPT ![t] = @ + 1]
                        /\ pc' = "cancel_cb"
                   ELSE /\ pc' = AfterItem(Tail(sweep))
                        /\ UNCHANGED cancelCalls
           ELSE /\ sweep' = <<>>
                /\ pc' = "loop"
                /\ UNCHANGED <<active_timers, timer, cancelCalls>>
  /\ UNCHANGED <<auxVars, tabVars, navVars, origCalls, redirected, curTimer>>

\* A for loop over the dictionary itself: the items it still yields are
\* those of the association as it is now.
LiveRest(rest) == CHOOSE q \in Orderings(SweepItems) : TRUE

\* The for loop runs over list(...items()), a list made before the first
\* cancellation: what a callable adds to the association is not in it.
SnapshotRest(rest) == rest

\* The onredirect callable returns, and the for loop goes on.
CancelCallbackReturn ==
  /\ pc = "cancel_cb"
  /\ sweep' = SnapshotRest(sweep)
  /\ pc' = AfterItem(sweep')
  /\ UNCHANGED <<auxVars, tabVars, navVars, active_timers,
                 cancel_on_redirect_timers, timer, origCalls, cancelCalls,
                 redirected, curTimer>>

--------------------------------------------------------------------------
(* history(): the copy of self._history without the query strings.        *)

\* del entry['request']['queryString'] on one entry of the copy.
HasQuery(entry) == "queryString" \in DOMAIN entry.request
StripQuery(entry) ==
  [entry EXCEPT !.request =
     [f \in (DOMAIN entry.request) \ {"queryString"} |-> entry.request[f]]]

\* The list history() returns for the stored list h.
HistoryResult(h) == [i \in DOMAIN h |-> StripQuery(h[i])]

\* A history() that copies the list only: the del reaches the stored
\* entries.
StoredAfterShallowCopy(h) == HistoryResult(h)

\* self._history after history(): copy.deepcopy keeps the del away from it.
StoredAfterHistory(h) == h

\* history().  del raises KeyError for an entry without a queryString.
HistoryCall ==
  /\ pc \in UserCtl
  /\ historyCalls < MaxHistoryCalls
  /\ historyCalls' = historyCalls + 1
  /\ IF \A i \in DOMAIN history : HasQuery(history[i])
     THEN /\ snapshot' = HistoryResult(history)
          /\ history' = StoredAfterHistory(history)
     ELSE UNCHANGED <<snapshot, history>>
  /\ UNCHANGED <<deferred, deliveries, warnings, closing, errorInfo,
                 har_timings, navVars, timerVars, jsVars, pc>>

--------------------------------------------------------------------------
(* _JavascriptConsole, _jsconsole_enable, _jsconsole_messages.            *)

\* A _jsconsole_enable that installs a new console on every call.
EnableNeverNoop == FALSE

\* "if self._js_console is not None: return" in _jsconsole_enable.
EnableIsNoop == js_console.obj # 0

\* _jsconsole_enable(): console objects are numbered as they are created.
JsconsoleEnable ==
  /\ pc \in UserCtl
  /\ enableCalls < MaxEnables
  /\ enableCalls' = enableCalls + 1
  /\ js_console' = IF EnableIsNoop
                   THEN js_console
                   ELSE [obj |-> js_console.obj + 1, messages |-> <<>>]
  /\ UNCHANGED <<tabVars, navVars, timerVars, captureVars, console_read,
                 listing, executed, inject_status, pc>>

\* unicode(message) of the slot's argument.
Unicode(message) == message.text

\* A _jsconsole_messages that returns the console's own list.
ReadIsAlias == FALSE

\* "self._js_console.messages[:]": the returned list is a copy.
ReadIsCopy == TRUE

\* The list a caller holds after log(): its own copy, or the console's list.
HeldAfterLog(held, messages) ==
  IF held.aliased THEN [held EXCEPT !.value = messages] ELSE held

\* _JavascriptConsole.log(message), called by the page's script through the
\* console object installed in the window.
ConsoleLog(message) ==
  /\ pc \in UserCtl
  /\ js_console.obj # 0
  /\ Len(js_console.messages) < MaxMessages
  /\ js_console' = [js_console EXCEPT
                      !.messages = Append(@, Unicode(message))]
  /\ console_read' = HeldAfterLog(console_read, js_console'.messages)
  /\ UNCHANGED <<tabVars, navVars, timerVars, captureVars, enableCalls,
                 listing, executed, inject_status, pc>>

\* _jsconsole_messages().
JsconsoleMessages ==
  /\ pc \in UserCtl
  /\ console_read' =
       IF js_console.obj = 0
       THEN [taken |-> TRUE, aliased |-> FALSE, value |-> <<>>]
       ELSE [taken |-> TRUE, aliased |-> ~ReadIsCopy,
             value |-> js_console.messages]
  /\ UNCHANGED <<tabVars, navVars, timerVars, captureVars, js_console,
                 enableCalls, listing, executed, inject_status, pc>>

--------------------------------------------------------------------------
(* inject_js and inject_js_libs.                                          *)

\* An inject_js_libs that takes every entry of the folder for a script.
EndsWithAnything(name) == TRUE

\* jsfile.endswith('.js').
EndsWithJs(name) == name.ext = ".js"

\* The for loop of inject_js_libs from entry i of dir on: the scripts run
\* and how the loop ends.  inject_js raises where open() or read() raises,
\* and the exception leaves the loop.
RECURSIVE InjectFrom(_, _)
InjectFrom(dir, i) ==
  IF i > Len(dir)
  THEN [executed |-> <<>>, status |-> "done"]
  ELSE IF ~EndsWithJs(dir[i].name)
  THEN InjectFrom(dir, i + 1)
  ELSE IF ~dir[i].readable
  THEN [executed |-> <<>>, status |-> "IOError"]
  ELSE LET r == InjectFrom(dir, i + 1)
       IN [executed |-> <<dir[i].name>> \o r.executed, status |-> r.status]

\* inject_js_libs(folder), for a folder that os.listdir lists as dir.
InjectJsLibs(dir) ==
  /\ pc \in UserCtl
  /\ listing' = dir
  /\ executed' = InjectFrom(dir, 1).executed
  /\ inject_status' = InjectFrom(dir, 1).status
  /\ UNCHANGED <<tabVars, navVars, timerVars, captureVars, js_console,
                 enableCalls, console_read, pc>>

--------------------------------------------------------------------------
\* The caller's calls to go, wait, return_result and return_error.
ApiCall ==
  \/ ReturnResult
  \/ ReturnError
  \/ \E baseurl \in BOOLEAN, http_method \in Methods : Go(baseurl, http_method)
  \/ \E onredirect \in OnRedirectValues : Wait(onredirect)

\* The steps of the navigation lifecycle.
NavStep ==
  \/ \E e \in {"none", "set"} : SetErrorInfo(e)
  \/ \E c \in Calls, err \in BOOLEAN : FetchFinished(c, err)
  \/ \E ok \in BOOLEAN : LoadFinishedSignal(ok)
  \/ \E c \in Calls : OnGotoLoadFinished(c)
  \/ GoCallbackReturn

\* The steps of the timer registry.
TimerStep ==
  \/ \E t \in Timers : TimerExpiry(t)
  \/ OnWaitTimeout
  \/ TimerCallbackReturn
  \/ \E found \in BOOLEAN, data \in HarData :
       /\ found => Len(history) < MaxHistory
       /\ UrlChanged(found, data)
  \/ CancelTimer
  \/ CancelCallbackReturn

\* The tab with every signal and every method, for a caller that makes at
\* most MaxOps calls.
Next ==
  \/ OpsUsed < MaxOps /\ ApiCall
  \/ Close
  \/ NavStep
  \/ TimerStep

Spec == Init /\ [][Next]_vars

\* The navigation lifecycle alone: no timer is scheduled and the URL does
\* not change.
NavNext ==
  \/ ReturnResult
  \/ ReturnError
  \/ \E baseurl \in BOOLEAN, http_method \in Methods : Go(baseurl, http_method)
  \/ Close
  \/ NavStep

NavSpec == Init /\ [][NavNext]_vars

\* The timer registry alone: no navigation is started.
TimerNext ==
  \/ \E onredirect \in OnRedirectValues : Wait(onredirect)
  \/ Close
  \/ TimerStep

TimerSpec == Init /\ [][TimerNext]_vars

\* The timer registry under the event loop's scheduling: a running timer's
\* timeout is dispatched once control is back in the loop, and a handler
\* or callback that has started runs to its end.
FairTimerSpec ==
  /\ TimerSpec
  /\ \A t \in Timers : SF_vars(TimerExpiry(t))
  /\ WF_vars(OnWaitTimeout)
  /\ WF_vars(TimerCallbackReturn)
  /\ WF_vars(CancelTimer)
  /\ WF_vars(CancelCallbackReturn)

\* The history of the tab: URL changes with the records of two requests,
\* one timer to cancel, and the caller's history() calls.
HistoryNext ==
  \/ \E onredirect \in OnRedirectValues :
       /\ UnusedTimers = Timers
       /\ Wait(onredirect)
  \/ \E found \in BOOLEAN, data \in HistoryData :
       /\ found => Len(history) < MaxHistoryLen
       /\ UrlChanged(found, data)
  \/ CancelTimer
  \/ CancelCallbackReturn
  \/ HistoryCall

HistorySpec == Init /\ [][HistoryNext]_vars

\* The console capture alone.
ConsoleNext ==
  \/ JsconsoleEnable
  \/ \E message \in ConsoleArgs : ConsoleLog(message)
  \/ JsconsoleMessages

ConsoleSpec == Init /\ [][ConsoleNext]_vars

\* Script injection alone.
InjectNext == \E dir \in Listings : InjectJsLibs(dir)

InjectSpec == Init /\ [][InjectNext]_vars

--------------------------------------------------------------------------
(* The claims.                                                            *)

\* C1: whatever go, load-finished, URL-changed, timer-expiry, fetch-finished,
\* return_result and return_error events occur, a result channel that is
\* fulfilled keeps its variant and never returns to empty.
C1_FulfilledOnce == [][deferred # "empty" => deferred' = deferred]_vars

\* C1 witness: a second delivery was attempted on a fulfilled channel.
C1_Witness == deferred # "empty" /\ deliveries >= 2

\* C2: for one go() call the outcome callbacks (callback and errback
\* together) are invoked at most once, however many load-finished signals
\* follow.
C2_OutcomeAtMostOnce == \A c \in Calls : cbCalls[c] + ebCalls[c] <= 1

\* C3: a load-finished signal handled while the tab is not closing invokes
\* exactly the callback for ok with an empty error slot, exactly the errback
\* when the error slot is set, and neither for not-ok with an empty slot.
C3_Classification ==
  [][\A c \in Calls :
       (OnGotoLoadFinished(c) /\ ~closing) =>
         LET cb == cbCalls'[c] - cbCalls[c]
             eb == ebCalls'[c] - ebCalls[c]
         IN /\ (sigOk /\ errorInfo = "none") => (cb = 1 /\ eb = 0)
            /\ errorInfo # "none" => (cb = 0 /\ eb = 1)
            /\ (~sigOk /\ errorInfo = "none") => (cb = 0 /\ eb = 0)
            /\ \A d \in Calls \ {c} :
                 cbCalls'[d] = cbCalls[d] /\ ebCalls'[d] = ebCalls[d]]_vars

\* C3 witness: one call has seen a success, an error and a possible
\* redirect.
C3_Witness ==
  \E c \in Calls :
    cbCalls[c] >= 1 /\ ebCalls[c] >= 1 /\ "redirect" \in logged /\ ~closing

\* C4: a go() with a base URL and a method other than GET raises, and
\* issues neither a fetch nor a load nor a load-finished subscription.
C4_NonGetBaseUrlRejected ==
  \A c \in Calls :
    (call[c].st # "unused" /\ call[c].baseurl /\ call[c].method # "GET") =>
      /\ call[c].st = "raised"
      /\ \A k \in {"get", "load", "setContent"} : <<c, k>> \notin issued
      /\ \A i \in 1..Len(loadFinished) : loadFinished[i] # c

\* C4 witness: such a call was made after an accepted one.
C4_Witness ==
  \E c, d \in Calls : call[c].st = "raised" /\ call[d].st = "loading"

\* C5: a timer scheduled with onredirect that was still running when a
\* URL-change signal was handled never has its callback invoked; its
\* onredirect callable, if it has one, has been invoked exactly once when
\* the URL-change handler is done, and is never invoked otherwise.
C5_RedirectCancels ==
  \A t \in redirected :
    /\ origCalls[t] = 0
    /\ cancelCalls[t] <= 1
    /\ timer[t].onredirect # "callable" => cancelCalls[t] = 0
    /\ (timer[t].onredirect = "callable" /\ pc \notin {"sweep", "cancel_cb"})
         => cancelCalls[t] = 1

\* C5 witness: a URL change has cancelled a timer with a callable and one
\* with onredirect=True, and control is back in the event loop.
C5_Witness ==
  /\ pc = "loop"
  /\ \E t, u \in redirected :
       /\ timer[t].onredirect = "callable" /\ cancelCalls[t] = 1
       /\ timer[u].onredirect = "true" /\ timer[u].st = "stopped"

\* C6: a timer scheduled without onredirect is never cancelled: while it
\* runs it is in the active set whatever URL changes are handled, and its
\* callback is invoked exactly once.
C6_PlainTimerFiresOnce ==
  /\ [](\A t \in Timers :
          timer[t].onredirect = "none" =>
            /\ timer[t].st # "stopped"
            /\ cancelCalls[t] = 0
            /\ origCalls[t] <= 1
            /\ timer[t].st = "running" =>
                 (t \in active_timers /\ origCalls[t] = 0))
  /\ \A t \in Timers :
       (timer[t].st = "running" /\ timer[t].onredirect = "none")
         ~> (origCalls[t] = 1)

\* C6 witness: a timer without onredirect is still running and active after
\* a sweep that cancelled a timer scheduled after it.
C6_Witness ==
  \E t, u \in Timers :
    /\ t < u
    /\ timer[t].onredirect = "none" /\ timer[t].st = "running"
    /\ t \in active_timers
    /\ timer[u].st = "stopped"
    /\ pc = "loop"

\* C7: the closing flag never goes back to false, and a load-finished
\* signal handled while it is true invokes no callback and leaves the
\* result channel alone, whatever ok and the error slot are.
C7_ClosingIgnores ==
  [][/\ closing => closing'
     /\ \A c \in Calls :
          (OnGotoLoadFinished(c) /\ closing) =>
            /\ UNCHANGED <<cbCalls, ebCalls, deferred, deliveries, warnings>>
            /\ pc' # "go_cb"]_vars

\* C7 witness: a load-finished signal was ignored by a closing tab that
\* had a navigation under way.
C7_Witness ==
  /\ closing
  /\ "ignored: closing" \in logged
  /\ \E c \in Calls : call[c].st = "loading"

\* C8: whenever control is with the event loop or with caller code, every
\* timer in the redirect-cancel association is in the active-timer set.
C8_AssociatedAreActive ==
  pc \in UserCtl => DOMAIN cancel_on_redirect_timers \subseteq active_timers

\* C8 witness: an onredirect callable is running while another associated
\* timer is still to be cancelled.
C8_Witness ==
  /\ pc = "cancel_cb"
  /\ DOMAIN cancel_on_redirect_timers # {}
  /\ sweep # <<>>

\* C9: a possible-redirect load-finished signal (not ok, empty error slot)
\* delivers nothing and schedules nothing; callbacks are invoked only by a
\* load-finished handler run, and the result channel changes only in
\* return_result / return_error.
C9_RedirectDeliversNothing ==
  [][/\ \A c \in Calls :
          (OnGotoLoadFinished(c) /\ ~closing /\ ~sigOk /\ errorInfo = "none")
            => /\ UNCHANGED <<cbCalls, ebCalls, tabVars, timerVars>>
               /\ pc' # "go_cb"
     /\ (cbCalls' # cbCalls \/ ebCalls' # ebCalls)
          => \E c \in Calls :
               /\ OnGotoLoadFinished(c)
               /\ ~closing
               /\ sigOk \/ errorInfo # "none"
     /\ deferred' # deferred => (ReturnResult \/ ReturnError)]_vars

\* C9 witness: a possible redirect was seen, control is back in the event
\* loop, and the navigation has no outcome and the channel is empty.
C9_Witness ==
  /\ "redirect" \in logged
  /\ pc = "loop"
  /\ deferred = "empty"
  /\ \E c \in Calls :
       call[c].st = "loading" /\ cbCalls[c] = 0 /\ ebCalls[c] = 0

\* C10: return_result and return_error write the "result is already
\* returned" entry exactly when the channel is fulfilled, attempt the
\* delivery in either case, and fulfil an empty channel with their variant.
C10_WarnAndDeliver ==
  [][/\ ReturnResult =>
          /\ warnings' = warnings + (IF deferred # "empty" THEN 1 ELSE 0)
          /\ deliveries' = deliveries + 1
          /\ deferred = "empty" => deferred' = "success"
     /\ ReturnError =>
          /\ warnings' = warnings + (IF deferred # "empty" THEN 1 ELSE 0)
          /\ deliveries' = deliveries + 1
          /\ deferred = "empty" => deferred' = "error"]_vars

\* C10 witness: an error was delivered and a second delivery was warned
\* about.
C10_Witness == deferred = "error" /\ warnings = 1 /\ deliveries = 2

\* C11: history() returns the stored entries in order, each without the
\* queryString of its request; the stored entries keep theirs, whatever
\* the number of calls; a second call on the same history returns the same
\* list.
C11_HistoryStripsQuery ==
  /\ [](\A i \in DOMAIN history : HasQuery(history[i]))
  /\ [][HistoryCall =>
          /\ history' = history
          /\ Len(snapshot') = Len(history)
          /\ \A i \in DOMAIN snapshot' :
               /\ ~HasQuery(snapshot'[i])
               /\ snapshot'[i].request.url = history[i].request.url
          /\ (historyCalls > 0 /\ Len(snapshot) = Len(history)
                => snapshot' = snapshot)]_vars

\* A second history() call has returned two entries of different requests.
C11_Witness ==
  /\ historyCalls = MaxHistoryCalls
  /\ Len(snapshot) = MaxHistoryLen
  /\ Len(history) = MaxHistoryLen
  /\ snapshot[1] # snapshot[2]

\* C12: a go() with a base URL has no load-finished slot, no injected
\* content and no outcome while its fetch is under way, so a load-finished
\* signal of that period is not classified for it; content is injected for
\* base-URL calls only, and both the load of the plain path and the
\* setContent of the base-URL path are issued with the call's slot already
\* connected.
C12_BaseUrlWaitsForFetch ==
  \A c \in Calls :
    /\ call[c].st = "fetching" =>
         /\ ~Connected(loadFinished, c)
         /\ ~Connected(slots, c)
         /\ <<c, "setContent">> \notin issued
         /\ cbCalls[c] = 0 /\ ebCalls[c] = 0
    /\ <<c, "setContent">> \in issued =>
         /\ call[c].baseurl
         /\ <<c, "get">> \in issued
         /\ Connected(loadFinished, c)
         /\ c \in armed
    /\ <<c, "load">> \in issued =>
         /\ ~call[c].baseurl
         /\ Connected(loadFinished, c)
         /\ c \in armed

\* C12 witness: a load-finished signal was classified for the second call,
\* a plain one, while the fetch of the first call, started before it, was
\* under way.
C12_Witness ==
  /\ call[1].st = "fetching"
  /\ <<2, "load">> \in issued
  /\ cbCalls[2] >= 1
  /\ cbCalls[1] = 0 /\ ebCalls[1] = 0

C14_SweepIsSnapshot ==
  /\ [](\A t \in Timers :
          /\ timer[t].st = "stopped" => t \in redirected
          /\ (t \in redirected /\ pc \notin {"sweep", "cancel_cb"}) =>
               /\ timer[t].st = "stopped"
               /\ t \notin active_timers
               /\ t \notin DOMAIN cancel_on_redirect_timers
          /\ (/\ t \notin redirected
              /\ timer[t].st = "running"
              /\ timer[t].onredirect # "none") =>
               /\ t \in active_timers
               /\ t \in DOMAIN cancel_on_redirect_timers)
  /\ [][(\E found \in BOOLEAN, data \in HarData : UrlChanged(found, data)) =>
          {sweep'[i][1] : i \in DOMAIN sweep'} =
            DOMAIN cancel_on_redirect_timers]_vars

\* C14 witness: the callable of the last timer of a sweep has scheduled a
\* timer with onredirect, which is running and in both sets.
C14_Witness ==
  /\ pc = "cancel_cb"
  /\ sweep = <<>>
  /\ \E t \in redirected, u \in Timers \ redirected :
       /\ cancelCalls[t] = 1
       /\ timer[u].st = "running"
       /\ timer[u].onredirect # "none"
       /\ u \in active_timers
       /\ u \in DOMAIN cancel_on_redirect_timers

\* C15 as stated: the callback of an expired timer is invoked first and the
\* timer is removed afterwards, so the timer is still in the active-timer
\* set while its callback runs, and an associated timer is still in the
\* association.
C15_CallbackBeforeRemoval ==
  pc = "timer_cb" =>
    /\ curTimer \in active_timers
    /\ timer[curTimer].onredirect # "none" =>
         curTimer \in DOMAIN cancel_on_redirect_timers

\* C15: on natural expiry the timer is removed from the active-timer set,
\* then from the redirect-cancel association, and then its callback is
\* invoked, once; while the callback runs and when control is back with the
\* event loop the timer is in neither.
C15_RemovalBeforeCallback ==
  /\ pc = "timeout" =>
       /\ curTimer \notin active_timers
       /\ origCalls[curTimer] = 0
  /\ pc = "timer_cb" =>
       /\ curTimer \notin active_timers
       /\ curTimer \notin DOMAIN cancel_on_redirect_timers
       /\ origCalls[curTimer] = 1
  /\ \A t \in Timers :
       (timer[t].st = "fired" /\ pc = "loop") =>
         /\ t \notin active_timers
         /\ t \notin DOMAIN cancel_on_redirect_timers
         /\ origCalls[t] = 1

\* C15 witness: the callback of an expired timer that was scheduled with
\* onredirect is running.
C15_Witness ==
  /\ pc = "timer_cb"
  /\ timer[curTimer].onredirect # "none"
  /\ origCalls[curTimer] = 1

\* C16 as stated: every URL-change signal adds one entry to the history, a
\* null one when no causally-preceding record is found.
C16_EntryPerUrlChange ==
  [][(\E found \in BOOLEAN, data \in HistoryData : UrlChanged(found, data))
       => Len(history') = Len(history) + 1]_vars

\* C17: enabling the console capture when a console is installed changes
\* neither the console object nor its messages; log appends its message at
\* the end of the list and is the only thing that changes the list; the
\* list _jsconsole_messages returns is the list as it is at the call, it is
\* empty when no console was ever installed, and a later log does not
\* change it.
C17_ConsoleAppendOnly ==
  /\ [](js_console.obj = 0 =>
          /\ js_console.messages = <<>>
          /\ console_read.value = <<>>)
  /\ [][/\ (JsconsoleEnable /\ js_console.obj # 0) =>
             js_console' = js_console
        /\ \A message \in ConsoleArgs :
             ConsoleLog(message) =>
               /\ js_console'.obj = js_console.obj
               /\ js_console'.messages =
                    Append(js_console.messages, message.text)
               /\ console_read' = console_read
        /\ js_console'.messages # js_console.messages =>
             /\ Len(js_console'.messages) = Len(js_console.messages) + 1
             /\ SubSeq(js_console'.messages, 1, Len(js_console.messages)) =
                  js_console.messages
        /\ JsconsoleMessages =>
             /\ console_read'.value = js_console.messages
             /\ js_console' = js_console
        /\ console_read' # console_read => JsconsoleMessages]_vars

\* C17 witness: _jsconsole_enable was called twice, and a message was
\* logged after the messages were read.
C17_Witness ==
  /\ enableCalls >= 2
  /\ js_console.obj = 1
  /\ console_read.taken
  /\ console_read.value # <<>>
  /\ Len(console_read.value) < Len(js_console.messages)

\* C18: inject_js_libs runs one script for each entry of the listing whose
\* name ends in .js, in listing order, up to the first such entry that
\* cannot be read, and no other: the entries of other names are skipped,
\* an empty folder runs nothing and ends without error, and a read that
\* fails ends the call with that error, the scripts before it run and none
\* after it.
C18_InjectInListingOrder ==
  inject_status # "idle" =>
    LET IsJs(e) == e.name.ext = ".js"
        bad == {i \in DOMAIN listing : IsJs(listing[i]) /\ ~listing[i].readable}
        k == IF bad = {}
             THEN Len(listing) + 1
             ELSE CHOOSE i \in bad : \A j \in bad : i <= j
        ran == SelectSeq(SubSeq(listing, 1, k - 1), IsJs)
    IN /\ Len(executed) = Len(ran)
       /\ \A i \in DOMAIN executed : executed[i] = ran[i].name
       /\ inject_status = IF bad = {} THEN "done" ELSE "IOError"
       /\ listing = <<>> => (executed = <<>> /\ inject_status = "done")

\* C18 witness: a call ended with the error of an unreadable script, after
\* it ran a script and before it reached a readable one.
C18_Witness ==
  /\ inject_status = "IOError"
  /\ executed # <<>>
  /\ \E i \in DOMAIN listing :
       /\ listing[i].name.ext = ".js"
       /\ listing[i].readable
       /\ \A j \in DOMAIN executed : executed[j] # listing[i].name

\* C19: for every timer the invocations of its callback and of its
\* onredirect callable are at most one in all; a timer that has expired
\* never has its onredirect callable invoked, and a cancelled timer never
\* its callback; an expiry or a cancellation only ever handles a timer
\* that is in the active-timer set.
C19_OneOutcomePerTimer ==
  \A t \in Timers :
    /\ origCalls[t] + cancelCalls[t] <= 1
    /\ timer[t].st = "fired" =>
         /\ cancelCalls[t] = 0
         /\ origCalls[t] = IF pc = "timeout" /\ curTimer = t THEN 0 ELSE 1
    /\ timer[t].st = "stopped" => origCalls[t] = 0
    /\ timer[t].st = "running" => t \in active_timers
    /\ \A i \in DOMAIN sweep : sweep[i][1] \in active_timers

\* C19 witness: a timer with an onredirect callable expired and had its
\* callback invoked before a URL change whose sweep invoked the callable
\* of a timer scheduled after it.
C19_Witness ==
  /\ pc = "loop"
  /\ \E t \in Timers \ redirected, u \in redirected :
       /\ t < u
       /\ timer[t].onredirect = "callable"
       /\ timer[t].st = "fired"
       /\ origCalls[t] = 1
       /\ cancelCalls[u] = 1

\* C20: _close leaves the active-timer set, the redirect-cancel association
\* and the timers as they are, and the closing flag stops no timer
\* handling: in a closing tab an expiry still removes the timer and invokes
\* its callback, a URL change still sweeps the whole association, and a
\* cancellation still invokes the onredirect callable.
C20_CloseLeavesTimers ==
  [][/\ Close => UNCHANGED timerVars
     /\ closing =>
          /\ \A t \in Timers :
               (TimerExpiry(t) /\ t \in active_timers) =>
                 (pc' = "timeout" /\ curTimer' = t)
          /\ OnWaitTimeout =>
               /\ origCalls'[curTimer] = origCalls[curTimer] + 1
               /\ pc' = "timer_cb"
          /\ (\E found \in BOOLEAN, data \in HarData :
                UrlChanged(found, data)) =>
               {sweep'[i][1] : i \in DOMAIN sweep'} =
                 DOMAIN cancel_on_redirect_timers
          /\ (CancelTimer /\ IsCallable(Head(sweep)[2])) =>
               /\ cancelCalls'[Head(sweep)[1]] =
                    cancelCalls[Head(sweep)[1]] + 1
               /\ pc' = "cancel_cb"]_vars

\* C20 witness: in a closing tab a timer has expired and left the active
\* set, its callback about to be invoked, after a sweep that invoked the
\* callable of another timer.
C20_Witness ==
  /\ closing
  /\ pc = "timeout"
  /\ timer[curTimer].st = "fired"
  /\ \E u \in redirected : cancelCalls[u] = 1

\* C21: a go() with a base URL and a method other than GET raises within
\* the call: control stays where it was, the "_onStarted" timing is
\* stored, and nothing else of the tab changes, neither the load-finished
\* slots nor the reply nor the requests issued nor the result channel; the
\* call never has a slot, and no load-finished signal ever invokes its
\* callback or its errback.
C21_RejectedGoChangesNothing ==
  /\ [](\A c \in Calls :
          call[c].st = "raised" =>
            /\ call[c].baseurl /\ call[c].method # "GET"
            /\ cbCalls[c] = 0 /\ ebCalls[c] = 0
            /\ ~Connected(loadFinished, c)
            /\ ~Connected(slots, c)
            /\ "_onStarted" \in har_timings)
  /\ [][\A http_method \in Methods \ {"GET"} :
          Go(TRUE, http_method) =>
            /\ call'[NextCall].st = "raised"
            /\ \A d \in Calls \ {NextCall} : call'[d] = call[d]
            /\ har_timings' = har_timings \cup {"_onStarted"}
            /\ UNCHANGED <<deferred, deliveries, warnings, closing, errorInfo,
                           history, loadFinished, reply, issued, cbCalls,
                           ebCalls, slots, sigOk, logged, armed, timerVars,
                           auxVars, pc>>]_vars

\* C21 witness: the first go() was rejected, and a load-finished signal
\* that came after it was classified as a success for the second call.
C21_Witness ==
  /\ call[1].st = "raised"
  /\ call[2].st = "loading"
  /\ cbCalls[2] >= 1
  /\ cbCalls[1] = 0 /\ ebCalls[1] = 0
  /\ pc = "loop"

====
